---- MODULE Spec2Model ----
(***************************************************************************)
(* Resume RAG chatbot: the orchestration core of agents_graph.py (router,  *)
(* resume handler, chat handler, graph wiring), the retrieval tool of      *)
(* rag_tools.py and the Streamlit turn handler of main.py.                 *)
(*                                                                         *)
(* Text is modelled as a sequence of pieces, the maximal runs of           *)
(* non-whitespace characters of the Python string (a separator character   *)
(* such as the comma of ", ".join is its own piece).  A piece is           *)
(*   W(s)  a run without a standalone number, s its characters (digits in  *)
(*         it touch a letter or an underscore);                            *)
(*   N(ds) a run of decimal digits ds that is delimited by whitespace or   *)
(*         punctuation on both sides;                                      *)
(*   T(cs) a snippet of chunk text, cs its characters one by one           *)
(*         (chunk text is lower-case, src/cleaning.py line 17).            *)
(* No cue word, marker or pattern of the code contains whitespace other    *)
(* than the single space of "Resume ID:", so a substring or regex match of *)
(* the code always lies inside one piece or starts at a piece boundary.    *)
(***************************************************************************)
EXTENDS Integers, Sequences, FiniteSets, TLC

\* ------------------------------------------------------------------ bounds

\* user turns per session
MaxTurns == 2
\* length of the in-focus list a graph invocation may start from
MaxFocus == 3
\* characters of a text handed to make_snippet, and its limit
MaxText == 5
MaxLimit == 3
\* batches of an ingestion job
MaxBatches == 5
\* user turns of two sessions taken together
MaxInterleaved == 2
\* earlier turns of a session with a long history
MaxPast == 5

\* --------------------------------------------------------- program constants

\* the two resume identifiers the prompts and docstrings use as examples
ID_A == 57667857
ID_B == 11847784
\* search_resumes(query, top_k=5)
TOP_K == 5
\* \d{5,}: the least number of digits of an identifier token
MIN_ID_DIGITS == 5
\* make_snippet limits of the two retrieval modes
ID_SNIPPET_LEN == 350
SEM_SNIPPET_LEN == 400
\* main.py MAX_HISTORY
MAX_HISTORY == 10
\* ingest_qdrant.py MAX_RETRIES
MAX_RETRIES == 5

\* ------------------------------------------------------------------ pieces

W(s) == [k |-> "w", s |-> s, ds |-> <<>>, t |-> <<>>]
N(ds) == [k |-> "n", s |-> "", ds |-> ds, t |-> <<>>]
T(cs) == [k |-> "t", s |-> "", ds |-> <<>>, t |-> cs]

Words(ss) == [i \in 1..Len(ss) |-> W(ss[i])]

\* str(n) of a non-negative int: its decimal digits
RECURSIVE Str(_)
Str(n) == IF n < 10 THEN <<n>> ELSE Append(Str(n \div 10), n % 10)

\* int(ds) of a digit string (leading zeros vanish)
RECURSIVE ParseInt(_)
ParseInt(ds) ==
    IF ds = <<>> THEN 0
    ELSE 10 * ParseInt(SubSeq(ds, 1, Len(ds) - 1)) + ds[Len(ds)]

RECURSIVE Concat(_)
Concat(ss) == IF ss = <<>> THEN <<>> ELSE Head(ss) \o Concat(Tail(ss))

\* first-seen-order deduplication of a sequence
RECURSIVE Dedup(_)
Dedup(s) ==
    IF s = <<>> THEN <<>>
    ELSE LET r == Dedup(SubSeq(s, 1, Len(s) - 1))
             x == s[Len(s)]
         IN IF \E i \in 1..Len(r) : r[i] = x THEN r ELSE Append(r, x)

Max(a, b) == IF a >= b THEN a ELSE b
Min(a, b) == IF a <= b THEN a ELSE b

\* ---------------------------------------------------------- str.lower / in

\* str.lower() of a piece, over the vocabulary of the user queries
LowerWord(s) ==
    CASE s = "First" -> "first"
      [] s = "THAT" -> "that"
      [] s = "Tell" -> "tell"
      [] s = "Resume" -> "resume"
      [] s = "ID:" -> "id:"
      [] OTHER -> s

Lower(text) ==
    [i \in 1..Len(text) |->
        IF text[i].k = "w" THEN W(LowerWord(text[i].s)) ELSE text[i]]

\* the lower-case pieces of the vocabulary that hold a cue as a proper infix
CueInfix ==
    { <<"first", "firsthand">>, <<"second", "seconds">>,
      <<"that", "thatcher">> }

\* cue in text, for a cue without whitespace
Contains(text, cue) ==
    \E i \in 1..Len(text) :
        /\ text[i].k = "w"
        /\ (text[i].s = cue \/ <<cue, text[i].s>> \in CueInfix)

\* -------------------------------------------------------------- make_snippet

IsSpace(c) == c = " "

RECURSIVE LStrip(_)
LStrip(cs) ==
    IF cs # <<>> /\ IsSpace(Head(cs)) THEN LStrip(Tail(cs)) ELSE cs

RECURSIVE RStrip(_)
RStrip(cs) ==
    IF cs # <<>> /\ IsSpace(cs[Len(cs)])
    THEN RStrip(SubSeq(cs, 1, Len(cs) - 1)) ELSE cs

Strip(cs) == RStrip(LStrip(cs))

\* cut.rfind(" "): the number of characters before the last space, -1 if none
RFindSpace(cs) ==
    LET at == {i \in 1..Len(cs) : IsSpace(cs[i])}
    IN IF at = {} THEN -1 ELSE (CHOOSE i \in at : \A j \in at : j <= i) - 1

Ellipsis == <<".", ".", ".">>

make_snippet(text, max_len) ==
    IF text = <<>> THEN <<>>
    ELSE LET t == Strip(text)
         IN IF Len(t) <= max_len THEN t
            ELSE LET cut == SubSeq(t, 1, max_len)
                     last_space == RFindSpace(cut)
                 IN (IF last_space # -1 THEN SubSeq(cut, 1, last_space)
                     ELSE cut) \o Ellipsis

\* --------------------------------------------------------------- chunk store

\* points of the collection, as ingest_qdrant.py writes them
Chunk(pid, rid, cat, idx, text) ==
    [id |-> pid, resume_id |-> rid, category |-> cat, chunk_index |-> idx,
     chunk_text |-> text]

cA0 == Chunk(0, ID_A, "HR", 0, <<"a", "b", " ", "c">>)
cA1 == Chunk(1, ID_A, "HR", 1, <<"a", "b", " ", "c">>)
cB0 == Chunk(2, ID_B, "IT", 0, <<"x", " ", "y">>)
\* a resume whose identifier has fewer than five digits
cC0 == Chunk(3, 1234, "HR", 0, <<"z">>)

\* the collections a session may run against
Stores == { {}, {cC0}, {cA0, cB0} }
\* the collections a single graph invocation is tried against
GraphStores == { {}, {cA0}, {cA0, cB0, cA1}, {cC0, cA0, cB0} }

\* the orders in which a similarity search may rank the points of a store
Rankings(st) ==
    {r \in [1..Cardinality(st) -> st] :
        \A i, j \in 1..Cardinality(st) : i # j => r[i] # r[j]}

\* qdrant.query_points(query, query_filter, limit).points under a ranking;
\* rid = -1 stands for no filter
query_points(rank, rid, limit) ==
    LET hit(p) == rid = -1 \/ p.resume_id = rid
        m == SelectSeq(rank, hit)
    IN SubSeq(m, 1, Min(limit, Len(m)))

\* ------------------------------------------------------------ search_resumes

\* detect_resume_ids without the removal of duplicates
detect_resume_ids_keeping_repeats(query) ==
    LET isId(p) == p.k = "n" /\ Len(p.ds) >= MIN_ID_DIGITS
        raw_ids == SelectSeq(query, isId)
    IN [i \in 1..Len(raw_ids) |-> ParseInt(raw_ids[i].ds)]

\* re.findall(r"\b\d{5,}\b", query), int() of each, duplicates removed in
\* first-seen order
detect_resume_ids(query) ==
    LET isId(p) == p.k = "n" /\ Len(p.ds) >= MIN_ID_DIGITS
        raw_ids == SelectSeq(query, isId)
    IN Dedup([i \in 1..Len(raw_ids) |-> ParseInt(raw_ids[i].ds)])

\* ", ".join(str(rid) for rid in resume_ids)
RECURSIVE JoinIds(_)
JoinIds(ids) ==
    IF ids = <<>> THEN <<>>
    ELSE IF Len(ids) = 1 THEN <<N(Str(ids[1]))>>
    ELSE <<N(Str(ids[1])), W(",")>> \o JoinIds(Tail(ids))

id_mode_header(resume_ids) ==
    Words(<<"Comparison", "context", "for", "Resume", "IDs:">>)
    \o JoinIds(resume_ids)
    \o Words(<<"(Each", "section", "below", "describes", "one", "resume.)">>)

section_head(rid) ==
    <<W("==="), W("Resume"), W("ID"), N(Str(rid)), W("===")>>

no_data_body ==
    Words(<<"No", "data", "found", "for", "this", "resume", "ID", "in",
            "the", "database.">>)

\* the snippets of one resume: make_snippet of each point, empty and repeated
\* snippets dropped
RECURSIVE gather_snippets(_)
gather_snippets(points) ==
    IF points = <<>> THEN <<>>
    ELSE LET before == gather_snippets(SubSeq(points, 1, Len(points) - 1))
             snippet == make_snippet(points[Len(points)].chunk_text,
                                     ID_SNIPPET_LEN)
         IN IF snippet # <<>> /\ \A i \in 1..Len(before) : before[i] # snippet
            THEN Append(before, snippet) ELSE before

snippet_lines(snippets) ==
    Concat([i \in 1..Len(snippets) |-> <<W("-"), T(snippets[i])>>])

\* id_section with the section of an identifier without points left out
id_section_skipping_empty(rid, per_resume_k, rank) ==
    LET points == query_points(rank, rid, per_resume_k)
    IN IF points = <<>> THEN <<>>
       ELSE section_head(rid)
            \o <<W("Category:"), W(points[1].category)>>
            \o Words(<<"Key", "snippets", "(work", "experience", "/",
                       "skills", "/", "summary):">>)
            \o snippet_lines(gather_snippets(points))

\* the section of one requested identifier
id_section(rid, per_resume_k, rank) ==
    LET points == query_points(rank, rid, per_resume_k)
    IN IF points = <<>> THEN section_head(rid) \o no_data_body
       ELSE section_head(rid)
            \o <<W("Category:"), W(points[1].category)>>
            \o Words(<<"Key", "snippets", "(work", "experience", "/",
                       "skills", "/", "summary):">>)
            \o snippet_lines(gather_snippets(points))

id_mode(resume_ids, top_k, rank) ==
    id_mode_header(resume_ids)
    \o Concat([i \in 1..Len(resume_ids) |->
                  id_section(resume_ids[i], Max(1, top_k), rank)])

no_hits_text ==
    Words(<<"(cross-mark)", "No", "relevant", "resume", "data", "found.">>)

result_block(i, p) ==
    <<W("Result"), N(Str(i)), W("Resume"), W("ID:"), N(Str(p.resume_id)),
      W("Category:"), W(p.category), W("Snippet:")>>
    \o (LET snippet == make_snippet(p.chunk_text, SEM_SNIPPET_LEN)
        IN IF snippet = <<>> THEN <<>> ELSE <<T(snippet)>>)

\* semantic_mode returning an empty text when nothing was hit
semantic_mode_empty_on_no_hits(top_k, rank) ==
    LET points == query_points(rank, -1, top_k)
    IN IF points = <<>> THEN <<>>
       ELSE Concat([i \in 1..Len(points) |-> result_block(i, points[i])])

semantic_mode(top_k, rank) ==
    LET points == query_points(rank, -1, top_k)
    IN IF points = <<>> THEN no_hits_text
       ELSE Concat([i \in 1..Len(points) |-> result_block(i, points[i])])

\* search_resumes(query, top_k) against a store whose similarity ranking for
\* the query vector is rank
search_resumes(query, top_k, rank) ==
    LET resume_ids == detect_resume_ids(query)
    IN IF resume_ids # <<>> THEN id_mode(resume_ids, top_k, rank)
       ELSE semantic_mode(top_k, rank)

\* the query_filter of each qdrant.query_points call search_resumes makes, in
\* order: one per detected identifier, or a single unfiltered call (-1)
query_filters(query) ==
    LET resume_ids == detect_resume_ids(query)
    IN IF resume_ids # <<>> THEN resume_ids ELSE <<-1>>

\* -------------------------------------------------------- extract_resume_ids

\* re.findall(r"Resume ID:\s*(\d+)", text), int() of each
extract_resume_ids(text) ==
    IF text = <<>> THEN <<>>
    ELSE LET at == {i \in 1..(Len(text) - 2) :
                        /\ text[i] = W("Resume")
                        /\ text[i + 1] = W("ID:")
                        /\ text[i + 2].k = "n"}
             RECURSIVE Collect(_)
             Collect(i) ==
                 IF i > Len(text) THEN <<>>
                 ELSE IF i \in at
                      THEN <<ParseInt(text[i + 2].ds)>> \o Collect(i + 3)
                      ELSE Collect(i + 1)
         IN Collect(1)

\* ------------------------------------------------------------------ messages

HumanMessage(id, content) == [id |-> id, type |-> "human", content |-> content]
AIMessage(id, content) == [id |-> id, type |-> "ai", content |-> content]

\* a message identifier no message of msgs carries (a fresh uuid)
FreshId(msgs) ==
    IF msgs = <<>> THEN 1
    ELSE 1 + (CHOOSE m \in {msgs[i].id : i \in 1..Len(msgs)} :
                  \A i \in 1..Len(msgs) : msgs[i].id <= m)

\* langgraph add_messages: a message of right replaces the message of left
\* with its id, or is appended
RECURSIVE add_messages(_, _)
add_messages(left, right) ==
    IF right = <<>> THEN left
    ELSE LET m == Head(right)
             merged ==
                 IF \E i \in 1..Len(left) : left[i].id = m.id
                 THEN [i \in 1..Len(left) |->
                          IF left[i].id = m.id THEN m ELSE left[i]]
                 ELSE Append(left, m)
         IN add_messages(merged, Tail(right))

\* ---------------------------------------------------------------- AgentState

\* selected_resume_ids: list[int] | None
NoIds == [some |-> FALSE, ids |-> <<>>]
SomeIds(ids) == [some |-> TRUE, ids |-> ids]
\* x or []
OrEmpty(x) == IF x.some THEN x.ids ELSE <<>>

\* token_usage: the usage_metadata of a response, or None
UsageValues == {"None", "usage"}

AgentState(messages, route, token_usage, selected_resume_ids) ==
    [messages |-> messages, route |-> route, token_usage |-> token_usage,
     selected_resume_ids |-> selected_resume_ids]

\* the channels after a node returned update: messages go through the
\* add_messages reducer, every other key is overwritten
ApplyUpdate(state, update) ==
    AgentState(add_messages(state.messages, update.messages), update.route,
               update.token_usage, update.selected_resume_ids)

\* -------------------------------------------------------------------- router

\* str.upper() of a piece, over the vocabulary of the decision texts
UpperWord(s) ==
    CASE s = "rag_agent" -> "RAG_AGENT"
      [] s = "chat_agent" -> "CHAT_AGENT"
      [] s = "Storage" -> "STORAGE"
      [] s = "choose" -> "CHOOSE"
      [] OTHER -> s

\* normalize_decision without the upper-casing
normalize_decision_without_upper(content) == content

\* response.content.strip().upper(); whitespace around the text is no piece
normalize_decision(content) ==
    [i \in 1..Len(content) |-> W(UpperWord(content[i].s))]

\* the upper-case pieces of the vocabulary that hold "RAG"
HoldsRAG == {"RAG_AGENT", "RAG", "STORAGE"}

\* "RAG" in decision
route_of_decision(decision) ==
    IF \E i \in 1..Len(decision) : decision[i].s \in HoldsRAG
    THEN "RAG_AGENT" ELSE "CHAT_AGENT"

\* what the policy model may answer
Decisions ==
    { Words(<<"RAG_AGENT">>), Words(<<"CHAT_AGENT">>), <<>>,
      Words(<<"rag_agent">>), Words(<<"I", "choose", "CHAT_AGENT">>),
      Words(<<"Storage">>) }

supervisor_update(state, content) ==
    [state EXCEPT !.route = route_of_decision(normalize_decision(content))]

\* route_from_state reading a key the state never has, so always defaulting
route_from_state_always_default(state) == "CHAT_AGENT"

route_from_state(state) ==
    IF state.route \notin {"RAG_AGENT", "CHAT_AGENT"} THEN "CHAT_AGENT"
    ELSE state.route

\* ------------------------------------------------------- follow-up resolution

\* f"Tell me more about Resume ID: {rid}"
follow_up_query(rid) ==
    Words(<<"Tell", "me", "more", "about", "Resume", "ID:">>) \o <<N(Str(rid))>>

\* resolve_follow_up with "second" tested before "first"
resolve_second_before_first(user_query, selected_ids) ==
    LET lower_q == Lower(user_query)
    IN IF selected_ids # <<>>
       THEN IF Contains(lower_q, "second") /\ Len(selected_ids) >= 2
            THEN follow_up_query(selected_ids[2])
            ELSE IF Contains(lower_q, "first") /\ Len(selected_ids) >= 1
            THEN follow_up_query(selected_ids[1])
            ELSE IF Contains(lower_q, "third") /\ Len(selected_ids) >= 3
            THEN follow_up_query(selected_ids[3])
            ELSE IF Contains(lower_q, "that") /\ Len(selected_ids) = 1
            THEN follow_up_query(selected_ids[1])
            ELSE user_query
       ELSE user_query

\* resolve_follow_up with "third" falling back to the last in-focus
\* identifier when fewer than three are in focus
resolve_third_clamped(user_query, selected_ids) ==
    LET lower_q == Lower(user_query)
    IN IF selected_ids # <<>>
       THEN IF Contains(lower_q, "first") /\ Len(selected_ids) >= 1
            THEN follow_up_query(selected_ids[1])
            ELSE IF Contains(lower_q, "second") /\ Len(selected_ids) >= 2
            THEN follow_up_query(selected_ids[2])
            ELSE IF Contains(lower_q, "third")
            THEN follow_up_query(selected_ids[Min(3, Len(selected_ids))])
            ELSE IF Contains(lower_q, "that") /\ Len(selected_ids) = 1
            THEN follow_up_query(selected_ids[1])
            ELSE user_query
       ELSE user_query

\* resolve_follow_up with "that" accepted whenever anything is in focus
resolve_that_unguarded(user_query, selected_ids) ==
    LET lower_q == Lower(user_query)
    IN IF selected_ids # <<>>
       THEN IF Contains(lower_q, "first") /\ Len(selected_ids) >= 1
            THEN follow_up_query(selected_ids[1])
            ELSE IF Contains(lower_q, "second") /\ Len(selected_ids) >= 2
            THEN follow_up_query(selected_ids[2])
            ELSE IF Contains(lower_q, "third") /\ Len(selected_ids) >= 3
            THEN follow_up_query(selected_ids[3])
            ELSE IF Contains(lower_q, "that") /\ Len(selected_ids) >= 1
            THEN follow_up_query(selected_ids[1])
            ELSE user_query
       ELSE user_query

\* the query rag_agent_node hands to the retrieval tool
resolve_follow_up(user_query, selected_ids) ==
    LET lower_q == Lower(user_query)
    IN IF selected_ids # <<>>
       THEN IF Contains(lower_q, "first") /\ Len(selected_ids) >= 1
            THEN follow_up_query(selected_ids[1])
            ELSE IF Contains(lower_q, "second") /\ Len(selected_ids) >= 2
            THEN follow_up_query(selected_ids[2])
            ELSE IF Contains(lower_q, "third") /\ Len(selected_ids) >= 3
            THEN follow_up_query(selected_ids[3])
            ELSE IF Contains(lower_q, "that") /\ Len(selected_ids) = 1
            THEN follow_up_query(selected_ids[1])
            ELSE user_query
       ELSE user_query

\* ------------------------------------------------------------------ handlers

\* what a generation model may answer
Replies == { Words(<<"answer">>) }

LastIsHuman(messages) ==
    messages # <<>> /\ messages[Len(messages)].type = "human"

\* rag_noop_update handing back the token usage it was entered with
rag_noop_update_keeping_usage(state) ==
    AgentState(<<>>, state.route, state.token_usage, state.selected_resume_ids)

\* the early return of rag_agent_node
rag_noop_update(state) ==
    AgentState(<<>>, state.route, "None", state.selected_resume_ids)

\* rag_update with the scanned identifiers stored even when there are none
rag_update_always_storing(state, found_ids, response, usage) ==
    AgentState(<<response>>, state.route, usage, SomeIds(found_ids))

\* the state rag_agent_node returns after retrieval and generation
rag_update(state, found_ids, response, usage) ==
    AgentState(<<response>>, state.route, usage,
               IF found_ids # <<>> THEN SomeIds(found_ids)
               ELSE state.selected_resume_ids)

\* chat_update forgetting the in-focus identifiers
chat_update_dropping_focus(state, response, usage) ==
    AgentState(<<response>>, state.route, usage, NoIds)

\* the state chat_agent_node returns
chat_update(state, response, usage) ==
    AgentState(<<response>>, state.route, usage, state.selected_resume_ids)

\* --------------------------------------------------------------------- state

VARIABLES
    store,          \* the points of the Qdrant collection (read-only)
    chat_history,   \* st.session_state["chat_history"]
    lc_messages,    \* st.session_state["lc_messages"]
    graph_state,    \* st.session_state["graph_state"]
    pc,             \* "idle", a node of the graph, "END", or "raised"
    gs,             \* the channels of the running graph invocation
    pre,            \* the session as it was when the turn started
    run,            \* what the nodes of this invocation did
    snip,           \* a call of make_snippet: arguments, result, position
    ingest,         \* the ingestion job: loop indices, position, effects
    cur,            \* the browser session whose script run is in progress
    parked          \* st.session_state of the other browser session

vars ==
    <<store, chat_history, lc_messages, graph_state, pc, gs, pre, run,
      snip, ingest, cur, parked>>

\* what a script run of one session's chat never touches
aside == <<snip, ingest, cur, parked>>

InitialGraphState == AgentState(<<>>, "CHAT_AGENT", "None", NoIds)

\* the record of an invocation that starts from state input
NewRun(input) ==
    [nodes |-> <<>>, raised |-> "", decision |-> <<>>, entry |-> input,
     noop |-> FALSE, question |-> <<>>, searches |-> 0, query |-> <<>>,
     context |-> <<>>, found_ids |-> <<>>, generations |-> 0,
     prompt_question |-> <<>>, calls |-> <<>>, usage |-> "None"]

Snapshot(input) ==
    [chat_history |-> chat_history, lc_messages |-> lc_messages,
     graph_state |-> graph_state, input |-> input]

\* ---------------------------------------------------------------- graph nodes

\* supervisor_node, then the conditional edge route_from_state; the policy
\* call may raise, and nothing catches it
SupervisorNode ==
    /\ pc = "supervisor"
    /\ \/ \E content \in Decisions :
            LET next == ApplyUpdate(gs, supervisor_update(gs, content))
            IN /\ gs' = next
               /\ pc' = route_from_state(next)
               /\ run' = [run EXCEPT !.nodes = Append(@, "supervisor"),
                                     !.decision = content]
       \/ /\ pc' = "raised"
          /\ run' = [run EXCEPT !.nodes = Append(@, "supervisor"),
                                !.raised = "policy"]
          /\ gs' = gs
    /\ UNCHANGED <<store, chat_history, lc_messages, graph_state, pre>>
    /\ UNCHANGED aside

\* rag_agent_node; the retrieval call and the generation call may raise
RagAgentNode ==
    /\ pc = "RAG_AGENT"
    /\ IF ~LastIsHuman(gs.messages)
       THEN /\ gs' = ApplyUpdate(gs, rag_noop_update(gs))
            /\ pc' = "END"
            /\ run' = [run EXCEPT !.nodes = Append(@, "RAG_AGENT"),
                                  !.entry = gs, !.noop = TRUE]
       ELSE LET question == gs.messages[Len(gs.messages)].content
                user_query ==
                    resolve_follow_up(question, OrEmpty(gs.selected_resume_ids))
                began == [run EXCEPT !.nodes = Append(@, "RAG_AGENT"),
                                     !.entry = gs, !.question = question,
                                     !.searches = 1, !.query = user_query]
            IN \/ /\ pc' = "raised"
                  /\ run' = [began EXCEPT !.raised = "retrieval"]
                  /\ gs' = gs
               \/ \E rank \in Rankings(store) :
                     LET rag_context == search_resumes(user_query, TOP_K, rank)
                         found_ids == extract_resume_ids(rag_context)
                         prompted ==
                             [began EXCEPT !.context = rag_context,
                                           !.calls = query_filters(user_query),
                                           !.found_ids = found_ids,
                                           !.generations = 1,
                                           !.prompt_question = user_query]
                     IN \/ /\ pc' = "raised"
                           /\ run' = [prompted EXCEPT !.raised = "generation"]
                           /\ gs' = gs
                        \/ \E content \in Replies, usage \in UsageValues :
                              LET response ==
                                      AIMessage(FreshId(gs.messages), content)
                              IN /\ gs' = ApplyUpdate(gs,
                                            rag_update(gs, found_ids, response,
                                                       usage))
                                 /\ pc' = "END"
                                 /\ run' = [prompted EXCEPT !.usage = usage]
    /\ UNCHANGED <<store, chat_history, lc_messages, graph_state, pre>>
    /\ UNCHANGED aside

\* chat_agent_node; the generation call may raise
ChatAgentNode ==
    /\ pc = "CHAT_AGENT"
    /\ LET began == [run EXCEPT !.nodes = Append(@, "CHAT_AGENT"),
                               !.entry = gs, !.generations = 1]
       IN \/ /\ pc' = "raised"
             /\ run' = [began EXCEPT !.raised = "generation"]
             /\ gs' = gs
          \/ \E content \in Replies, usage \in UsageValues :
                LET response == AIMessage(FreshId(gs.messages), content)
                IN /\ gs' = ApplyUpdate(gs, chat_update(gs, response, usage))
                   /\ pc' = "END"
                   /\ run' = [began EXCEPT !.usage = usage]
    /\ UNCHANGED <<store, chat_history, lc_messages, graph_state, pre>>
    /\ UNCHANGED aside

\* ------------------------------------------------------------------- main.py

\* what a user may type
Q_compare == <<W("compare"), N(Str(ID_A)), W("and"), N(Str(ID_B))>>
Q_first == Words(<<"tell", "me", "more", "about", "the", "first", "one">>)
Q_first_second ==
    Words(<<"tell", "me", "about", "the", "first", "and", "second">>)
Q_second == Words(<<"and", "the", "second">>)
Q_third == Words(<<"what", "about", "the", "third", "one">>)
Q_that == Words(<<"tell", "me", "more", "about", "that">>)
Q_that_third == Words(<<"is", "that", "the", "third">>)
Q_plain == Words(<<"who", "knows", "python">>)
Q_upper == Words(<<"First", "one">>)
Q_infix == Words(<<"any", "firsthand", "experience">>)
Q_repeat == <<N(Str(ID_B)), W("vs"), N(<<0>> \o Str(ID_B)), W("vs"),
              N(Str(99999)), W("with"), N(<<1, 2, 3, 4>>), W("years")>>

\* digits glued to letters: no word boundary before them
Q_glued == <<W("ref"), W("abc123456")>>
\* a number of fewer than five digits
Q_short == <<W("resume"), N(<<1, 2, 3, 4>>)>>

UserInputs == {Q_compare, Q_first, Q_that, Q_plain}

Humans(messages) ==
    Len(SelectSeq(messages, LAMBDA m : m.type = "human"))

\* the slice keeping the whole list
LastN_keeping_all(messages, n) == messages

\* lc_messages[-MAX_HISTORY:]
LastN(messages, n) ==
    SubSeq(messages, Max(1, Len(messages) - n + 1), Len(messages))

\* next((m for m in reversed(all_messages) if isinstance(m, AIMessage)), None)
HasAI(messages) == \E i \in 1..Len(messages) : messages[i].type = "ai"
LastAI(messages) ==
    messages[CHOOSE i \in 1..Len(messages) :
                 /\ messages[i].type = "ai"
                 /\ \A j \in (i + 1)..Len(messages) : messages[j].type # "ai"]

\* source_label_of without the test of the route
source_label_of_chat_only(route) == "Chat Agent (General Knowledge)"

source_label_of(route) ==
    IF route = "RAG_AGENT" THEN "RAG Agent (Resume Database)"
    ELSE "Chat Agent (General Knowledge)"

\* main.py lines 88-107: the user message is stored, the window is cut, the
\* session's graph_state dict gets the window and is handed to the graph
SubmitUpTo(turns) ==
    /\ pc \in {"idle", "raised"}
    /\ Humans(lc_messages) < turns
    /\ \E user_input \in UserInputs :
          LET appended ==
                  Append(lc_messages,
                         HumanMessage(FreshId(lc_messages), user_input))
              history_window == LastN(appended, MAX_HISTORY)
              current_state == [graph_state EXCEPT !.messages = history_window]
              input == ApplyUpdate(AgentState(<<>>, "", "", NoIds),
                                   current_state)
          IN /\ chat_history' =
                    Append(chat_history,
                           [role |-> "user", content |-> user_input,
                            source |-> ""])
             /\ lc_messages' = appended
             /\ graph_state' = current_state
             /\ gs' = input
             /\ pre' = Snapshot(input)
             /\ run' = NewRun(input)
             /\ pc' = "supervisor"
    /\ UNCHANGED store
    /\ UNCHANGED aside

Submit == SubmitUpTo(MaxTurns)

\* main.py lines 109-142: the final state is stored and the reply is shown
Finish ==
    /\ pc = "END"
    /\ graph_state' = gs
    /\ IF HasAI(gs.messages)
       THEN LET last_ai == LastAI(gs.messages)
            IN /\ lc_messages' = Append(lc_messages, last_ai)
               /\ chat_history' =
                      Append(chat_history,
                             [role |-> "assistant", content |-> last_ai.content,
                              source |-> source_label_of(gs.route)])
       ELSE /\ lc_messages' = lc_messages
            /\ chat_history' =
                   Append(chat_history,
                          [role |-> "assistant",
                           content |-> Words(<<"Sorry,", "I", "could", "not",
                                               "generate", "a", "response.">>),
                           source |-> "Unknown"])
    /\ pc' = "idle"
    /\ UNCHANGED <<store, gs, pre, run>>
    /\ UNCHANGED aside

\* the sidebar button "Clear conversation"
ClearConversation ==
    /\ pc \in {"idle", "raised"}
    /\ chat_history' = <<>>
    /\ lc_messages' = <<>>
    /\ graph_state' = InitialGraphState
    /\ gs' = InitialGraphState
    /\ pre' = [chat_history |-> <<>>, lc_messages |-> <<>>,
               graph_state |-> InitialGraphState, input |-> InitialGraphState]
    /\ run' = NewRun(InitialGraphState)
    /\ pc' = "idle"
    /\ UNCHANGED store
    /\ UNCHANGED aside

\* ------------------------------------------------------------ specifications

\* no make_snippet call, no ingestion job, one browser session
NoSnippet == [text |-> <<>>, max_len |-> 0, out |-> <<>>, pc |-> "off"]
NoIngest ==
    [pc |-> "off", num_batches |-> 0, batch_idx |-> 0, attempt |-> 0,
     waits |-> <<>>, upserted |-> <<>>]
FreshSession ==
    [chat_history |-> <<>>, lc_messages |-> <<>>,
     graph_state |-> InitialGraphState]
AsideOff ==
    /\ snip = NoSnippet
    /\ ingest = NoIngest
    /\ cur = 1
    /\ parked = FreshSession

\* a session of the Streamlit app
Init ==
    /\ store \in Stores
    /\ chat_history = <<>>
    /\ lc_messages = <<>>
    /\ graph_state = InitialGraphState
    /\ pc = "idle"
    /\ gs = InitialGraphState
    /\ pre = [chat_history |-> <<>>, lc_messages |-> <<>>,
              graph_state |-> InitialGraphState, input |-> InitialGraphState]
    /\ run = NewRun(InitialGraphState)
    /\ AsideOff

Next ==
    \/ Submit
    \/ SupervisorNode
    \/ RagAgentNode
    \/ ChatAgentNode
    \/ Finish
    \/ ClearConversation

Spec == Init /\ [][Next]_vars

\* one invocation of the compiled graph on any AgentState (run_once, tests)
FocusIds == {ID_A, ID_B}

RECURSIVE SeqsUpTo(_, _)
SeqsUpTo(S, n) ==
    IF n = 0 THEN {<<>>}
    ELSE LET shorter == SeqsUpTo(S, n - 1)
         IN shorter \cup {Append(q, x) : q \in shorter, x \in S}

GraphQueries ==
    {Q_compare, Q_first, Q_first_second, Q_second, Q_third, Q_that,
     Q_that_third, Q_plain, Q_upper, Q_infix, Q_repeat, Q_glued,
     Q_short}

GraphMessages ==
    {<<HumanMessage(1, q)>> : q \in GraphQueries}
    \cup { <<>>,
           <<HumanMessage(1, Q_first), AIMessage(2, Words(<<"answer">>))>> }

InitGraph ==
    /\ store \in GraphStores
    /\ chat_history = <<>>
    /\ lc_messages = <<>>
    /\ graph_state = InitialGraphState
    /\ pc = "supervisor"
    /\ \E messages \in GraphMessages, token_usage \in UsageValues,
          ids \in {NoIds} \cup {SomeIds(q) : q \in SeqsUpTo(FocusIds, MaxFocus)} :
          gs = AgentState(messages, "CHAT_AGENT", token_usage, ids)
    /\ pre = [chat_history |-> <<>>, lc_messages |-> <<>>,
              graph_state |-> InitialGraphState, input |-> gs]
    /\ run = NewRun(gs)
    /\ AsideOff

NextGraph ==
    \/ SupervisorNode
    \/ RagAgentNode
    \/ ChatAgentNode

SpecGraph == InitGraph /\ [][NextGraph]_vars

\* ------------------------------------------ two browser sessions of main.py

Sessions == {1, 2}

\* what the user of each session types
InputsOf(session) == IF session = 1 THEN {Q_compare, Q_plain} ELSE {Q_first}

\* st.session_state of the session whose script is running
SessionState ==
    [chat_history |-> chat_history, lc_messages |-> lc_messages,
     graph_state |-> graph_state]

\* session_state with the graph state kept in one module-level dict
session_state_sharing_graph_state(saved) ==
    [saved EXCEPT !.graph_state = graph_state]

\* the st.session_state a script run of a session gets: what the last run of
\* that session left in it
session_state(saved) == saved

\* Submit by the user of the running session
SubmitInSession ==
    /\ Humans(lc_messages) + Humans(parked.lc_messages) < MaxInterleaved
    /\ Submit
    /\ lc_messages'[Len(lc_messages')].content \in InputsOf(cur)

\* the script run of one session is over (or died) and the other session's
\* script runs next
SwitchSession ==
    /\ pc \in {"idle", "raised"}
    /\ cur' = 3 - cur
    /\ parked' = SessionState
    /\ LET mine == session_state(parked)
       IN /\ chat_history' = mine.chat_history
          /\ lc_messages' = mine.lc_messages
          /\ graph_state' = mine.graph_state
          /\ gs' = mine.graph_state
          /\ pre' = [chat_history |-> mine.chat_history,
                     lc_messages |-> mine.lc_messages,
                     graph_state |-> mine.graph_state,
                     input |-> mine.graph_state]
          /\ run' = NewRun(mine.graph_state)
    /\ pc' = "idle"
    /\ UNCHANGED <<store, snip, ingest>>

NextTwo ==
    \/ SubmitInSession
    \/ SupervisorNode
    \/ RagAgentNode
    \/ ChatAgentNode
    \/ Finish
    \/ ClearConversation
    \/ SwitchSession

SpecTwo == Init /\ [][NextTwo]_vars

\* ------------------------------------------- a session with a long history

\* lc_messages after turns earlier turns, each answered by the chat handler
past_lc_messages(turns) ==
    [i \in 1..(2 * turns) |->
        IF i % 2 = 1 THEN HumanMessage(i, Q_plain)
        ELSE AIMessage(i, Words(<<"answer">>))]

\* chat_history after those turns
past_chat_history(turns) ==
    [i \in 1..(2 * turns) |->
        IF i % 2 = 1
        THEN [role |-> "user", content |-> Q_plain, source |-> ""]
        ELSE [role |-> "assistant", content |-> Words(<<"answer">>),
              source |-> source_label_of("CHAT_AGENT")]]

\* graph_state after those turns: the final state of the last of them
past_graph_state(turns) ==
    IF turns = 0 THEN InitialGraphState
    ELSE LET stored == past_lc_messages(turns)
             history_window ==
                 LastN(SubSeq(stored, 1, 2 * turns - 1), MAX_HISTORY)
         IN AgentState(Append(history_window, stored[2 * turns]),
                       "CHAT_AGENT", "usage", NoIds)

SubmitLate == SubmitUpTo(MaxPast + 1)

InitWindow ==
    /\ store \in Stores
    /\ \E turns \in (MaxPast - 1)..MaxPast :
          /\ chat_history = past_chat_history(turns)
          /\ lc_messages = past_lc_messages(turns)
          /\ graph_state = past_graph_state(turns)
          /\ gs = past_graph_state(turns)
          /\ pre = [chat_history |-> <<>>, lc_messages |-> <<>>,
                    graph_state |-> InitialGraphState,
                    input |-> InitialGraphState]
          /\ run = NewRun(InitialGraphState)
    /\ pc = "idle"
    /\ AsideOff

NextWindow ==
    \/ SubmitLate
    \/ SupervisorNode
    \/ RagAgentNode
    \/ ChatAgentNode
    \/ Finish

SpecWindow == InitWindow /\ [][NextWindow]_vars

\* no chat session: the variables of main.py at their start values
NoChat ==
    /\ chat_history = <<>>
    /\ lc_messages = <<>>
    /\ graph_state = InitialGraphState
    /\ pc = "idle"
    /\ gs = InitialGraphState
    /\ pre = [chat_history |-> <<>>, lc_messages |-> <<>>,
              graph_state |-> InitialGraphState, input |-> InitialGraphState]
    /\ run = NewRun(InitialGraphState)
    /\ cur = 1
    /\ parked = FreshSession

\* ------------------------------------------------- make_snippet on any text

SnippetChars == {"a", "b", " "}

MakeSnippet ==
    /\ snip.pc = "call"
    /\ snip' = [snip EXCEPT !.out = make_snippet(snip.text, snip.max_len),
                            !.pc = "returned"]
    /\ UNCHANGED <<store, chat_history, lc_messages, graph_state, pc, gs,
                   pre, run, ingest, cur, parked>>

InitSnippet ==
    /\ store = {}
    /\ NoChat
    /\ ingest = NoIngest
    /\ \E text \in SeqsUpTo(SnippetChars, MaxText), max_len \in 1..MaxLimit :
          snip = [text |-> text, max_len |-> max_len, out |-> <<>>,
                  pc |-> "call"]

NextSnippet == MakeSnippet

SpecSnippet == InitSnippet /\ [][NextSnippet]_vars

\* ------------------------------------- ingest_qdrant.py, batch upsert loop

\* wait_s = 2 ** attempt
wait_s(attempt) == 2 ^ attempt

\* the for loop over the batches moves to the next index, or is over
next_batch(job) ==
    [job EXCEPT !.batch_idx = @ + 1,
                !.pc = IF job.batch_idx + 1 < job.num_batches THEN "batch"
                       ELSE "done"]

\* the except clause dropping the batch after the last attempt
on_upsert_failure_skipping(job) ==
    IF job.attempt = MAX_RETRIES THEN next_batch(job)
    ELSE [job EXCEPT !.waits = Append(@, wait_s(job.attempt)),
                     !.attempt = @ + 1]

\* the except clause: re-raise on the last attempt, else sleep and go round
on_upsert_failure(job) ==
    IF job.attempt = MAX_RETRIES THEN [job EXCEPT !.pc = "raised"]
    ELSE [job EXCEPT !.waits = Append(@, wait_s(job.attempt)),
                     !.attempt = @ + 1]

\* lines 105-137: slice the batch, embed it (the call may raise), build the
\* points; then the retry loop starts at attempt 1
EmbedBatch ==
    /\ ingest.pc = "batch"
    /\ \/ ingest' = [ingest EXCEPT !.pc = "upsert", !.attempt = 1,
                                    !.waits = <<>>]
       \/ ingest' = [ingest EXCEPT !.pc = "raised", !.attempt = 0,
                                    !.waits = <<>>]
    /\ UNCHANGED <<store, chat_history, lc_messages, graph_state, pc, gs,
                   pre, run, snip, cur, parked>>

\* lines 141-151: one round of the retry loop
UpsertAttempt ==
    /\ ingest.pc = "upsert"
    /\ \/ ingest' = next_batch([ingest EXCEPT
                                    !.upserted = Append(@, ingest.batch_idx)])
       \/ ingest' = on_upsert_failure(ingest)
    /\ UNCHANGED <<store, chat_history, lc_messages, graph_state, pc, gs,
                   pre, run, snip, cur, parked>>

InitIngest ==
    /\ store = {}
    /\ NoChat
    /\ snip = NoSnippet
    /\ \E num_batches \in 0..MaxBatches :
          ingest = [pc |-> IF num_batches > 0 THEN "batch" ELSE "done",
                    num_batches |-> num_batches, batch_idx |-> 0,
                    attempt |-> 0, waits |-> <<>>, upserted |-> <<>>]

NextIngest ==
    \/ EmbedBatch
    \/ UpsertAttempt

\* the script is one sequential process that keeps running
SpecIngest == InitIngest /\ [][NextIngest]_vars /\ WF_vars(NextIngest)

\* ==================================================================== claims

\* the turn that was started last has run to its end and its result is stored
TurnDone == pc = "idle" /\ run.nodes # <<>>
\* the turn that was started last was answered by the resume handler
ResumeTurn == run.nodes = <<"supervisor", "RAG_AGENT">>
\* the invocation made its retrieval call and got a context back
Retrieved == run.searches = 1 /\ run.context # <<>>

\* the integers a text names, in order
NumbersIn(text) ==
    LET nums == SelectSeq(text, LAMBDA p : p.k = "n")
    IN [i \in 1..Len(nums) |-> ParseInt(nums[i].ds)]

InFocus(state) == OrEmpty(state.selected_resume_ids)

\* ---- C1 ----
\* C1: a completed resume turn asking "compare 57667857 and 11847784"
\* against a store holding both leaves in-focus = [57667857, 11847784]; a
\* following completed resume turn "tell me more about the first one" was
\* rewritten to target 57667857 only and leaves in-focus = [57667857].
C1_ComparisonThenFirst ==
    /\ (TurnDone /\ ResumeTurn /\ run.question = Q_compare
            /\ {cA0, cB0} \subseteq store)
        => graph_state.selected_resume_ids = SomeIds(<<ID_A, ID_B>>)
    /\ (TurnDone /\ ResumeTurn /\ run.question = Q_first
            /\ {cA0, cB0} \subseteq store
            /\ Len(pre.lc_messages) = 2
            /\ pre.lc_messages[1].content = Q_compare
            /\ pre.graph_state.route = "RAG_AGENT")
        => /\ NumbersIn(run.query) = <<ID_A>>
           /\ graph_state.selected_resume_ids = SomeIds(<<ID_A>>)

\* ---- C2 ----
\* the identifiers a context addresses: those of its section heads
\* "Resume ID <digits>" and of its field lines "Resume ID: <digits>"
AddressedIds(text) ==
    {ParseInt(text[i + 2].ds) : i \in
        {j \in 1..(Len(text) - 2) :
            /\ text[j] = W("Resume")
            /\ text[j + 1] \in {W("ID"), W("ID:")}
            /\ text[j + 2].k = "n"}}

\* C2: every identifier a returned context addresses, in identifier mode as
\* in semantic mode, is among the identifiers the scanner found in it.
C2_ScannerRecoversAddressedIds ==
    Retrieved =>
        \A rid \in AddressedIds(run.context) :
            \E i \in 1..Len(run.found_ids) : run.found_ids[i] = rid

\* ---- C3 ----
\* C3: once a turn is over (completed or failed), the session's in-focus
\* identifiers are the scanned sequence if the turn was a completed resume
\* turn whose scan found at least one identifier, and are what they were
\* before the turn in every other case; while a turn runs they are what they
\* were before it.
C3_FocusReplacedOnlyByResumeScan ==
    graph_state.selected_resume_ids =
        IF TurnDone /\ ResumeTurn /\ run.found_ids # <<>>
        THEN SomeIds(run.found_ids)
        ELSE pre.graph_state.selected_resume_ids

\* a completed resume turn replaced [A, B] by [B, A]
C3_Witness ==
    /\ TurnDone /\ ResumeTurn
    /\ pre.graph_state.selected_resume_ids = SomeIds(<<ID_A, ID_B>>)
    /\ run.found_ids = <<ID_B, ID_A>>
    /\ graph_state.selected_resume_ids = SomeIds(<<ID_B, ID_A>>)

\* ---- C4 ----
\* C4: when the policy call raised or returned empty text, the route of the
\* turn is CHAT_AGENT and the policy call's exception did not end the turn.
C4_RouterDefaultsToChat ==
    (run.nodes # <<>> /\ (run.raised = "policy" \/ run.decision = <<>>))
        => /\ run.raised # "policy"
           /\ gs.route = "CHAT_AGENT"

\* ---- C5 ----
\* C5: after a turn whose retrieval or generation call raised, the message
\* history, route, token usage and in-focus identifiers of the session are
\* what they were before the turn.
C5_FailedTurnCommitsNothing ==
    (pc = "raised" /\ run.raised \in {"retrieval", "generation"})
        => /\ lc_messages = pre.lc_messages
           /\ graph_state = pre.graph_state

\* ---- C6 ----
\* C6: the identifiers scanned from a context are its "Resume ID: <digits>"
\* identifiers once each, in order of first appearance.
C6_ScanYieldsEachIdOnce ==
    Retrieved => run.found_ids = Dedup(extract_resume_ids(run.context))

\* ---- follow-up cues (C7, C8, C9) ----
\* the cue words in precedence order; the k-th ordinal is cue k
Cues == <<"first", "second", "third", "that">>
CueOccurs(k) == Contains(Lower(run.question), Cues[k])
\* the precondition of cue k on the in-focus list
CueHolds(k, ids) == IF k = 4 THEN Len(ids) = 1 ELSE Len(ids) >= k
\* the position in the in-focus list that cue k stands for
CuePosition(k) == IF k = 4 THEN 1 ELSE k
\* the in-focus list the resume handler started from
EntryFocus == InFocus(run.entry)
\* the resume handler got as far as calling the retrieval tool
Searched == run.searches = 1

\* ---- C7 ----
\* C7: when some cue occurs in the lower-cased question and its precondition
\* holds, the query handed to retrieval names exactly one identifier: the
\* in-focus identifier of the first such cue in the order first, second,
\* third, that.
C7_FirstMatchingCueWins ==
    Searched =>
        LET ok == {k \in 1..4 : CueOccurs(k) /\ CueHolds(k, EntryFocus)}
        IN ok # {} =>
              LET k == CHOOSE x \in ok : \A y \in ok : x <= y
              IN NumbersIn(run.query) = <<EntryFocus[CuePosition(k)]>>

\* "tell me about the first and second" with three in focus targets the first
C7_Witness ==
    /\ Searched
    /\ run.question = Q_first_second
    /\ EntryFocus = <<ID_A, ID_B, ID_B>>
    /\ NumbersIn(run.query) = <<ID_A>>

\* ---- C8 ----
\* C8: when nothing is in focus, or the only cue of the question is an
\* ordinal with fewer in-focus identifiers than it needs, the query handed to
\* retrieval is the user's question.
C8_UnmetPreconditionNoRewrite ==
    (Searched
       /\ \/ EntryFocus = <<>>
          \/ \E k \in 1..3 :
                /\ CueOccurs(k) /\ ~CueHolds(k, EntryFocus)
                /\ \A j \in 1..4 : j # k => ~CueOccurs(j))
        => run.query = run.question

\* "what about the third one" with one identifier in focus passes unchanged
C8_Witness ==
    /\ Searched
    /\ run.question = Q_third
    /\ EntryFocus = <<ID_A>>
    /\ run.query = Q_third

\* ---- C9 ----
\* C9: when "that" occurs and no ordinal cue does, the query handed to
\* retrieval is a rewrite naming in-focus[0] if exactly one identifier is in
\* focus, and is the user's question otherwise.
C9_ThatNeedsExactlyOne ==
    (Searched /\ CueOccurs(4) /\ \A k \in 1..3 : ~CueOccurs(k))
        => IF Len(EntryFocus) = 1
           THEN /\ run.query # run.question
                /\ NumbersIn(run.query) = <<EntryFocus[1]>>
           ELSE run.query = run.question

\* "tell me more about that" with two identifiers in focus passes unchanged
C9_Witness ==
    /\ Searched
    /\ run.question = Q_that
    /\ EntryFocus = <<ID_A, ID_B>>
    /\ run.query = Q_that

\* ---- C10 ----
\* the sections of an identifier-mode context: for each section head
\* "=== Resume ID <digits> ===", its identifier and whether the no-data
\* sentence follows it
SectionsOf(text) ==
    LET isHead(i) ==
            /\ i + 4 <= Len(text)
            /\ text[i] = W("===") /\ text[i + 1] = W("Resume")
            /\ text[i + 2] = W("ID") /\ text[i + 3].k = "n"
            /\ text[i + 4] = W("===")
        heads == SelectSeq([i \in 1..Len(text) |-> i], isHead)
    IN [n \in 1..Len(heads) |->
          [rid |-> ParseInt(text[heads[n] + 3].ds),
           no_data |->
               /\ heads[n] + 4 + Len(no_data_body) <= Len(text)
               /\ SubSeq(text, heads[n] + 5, heads[n] + 4 + Len(no_data_body))
                      = no_data_body]]

\* the identifiers a query requests: its standalone numbers of five or more
\* digits, each once, in order of first appearance
RequestedIds(query) ==
    Dedup(NumbersIn(SelectSeq(query,
              LAMBDA p : p.k = "n" /\ Len(p.ds) >= MIN_ID_DIGITS)))

\* C10: the context returned for a query that requests identifiers has
\* exactly one section per requested identifier, in the order of the query,
\* and the section of an identifier says "no data" exactly when the store
\* holds no chunk of it.
C10_OneSectionPerRequestedId ==
    (Retrieved /\ RequestedIds(run.query) # <<>>)
        => LET req == RequestedIds(run.query)
               secs == SectionsOf(run.context)
           IN /\ Len(secs) = Len(req)
              /\ \A i \in 1..Len(req) :
                    /\ secs[i].rid = req[i]
                    /\ secs[i].no_data
                         = (\A c \in store : c.resume_id # req[i])

\* one identifier with chunks and one without: two sections, the second
\* saying that no data was found
C10_Witness ==
    /\ Retrieved
    /\ run.query = Q_repeat
    /\ cB0 \in store
    /\ Len(SectionsOf(run.context)) = 2
    /\ ~SectionsOf(run.context)[1].no_data
    /\ SectionsOf(run.context)[2].no_data

\* ---- C11 ----
\* the prefix of length n of text ends where a space begins or has ended
AtSpaceBoundary(text, n) ==
    \/ n < Len(text) /\ IsSpace(text[n + 1])
    \/ n > 0 /\ IsSpace(text[n])

\* C11: make_snippet never splits a word: a text longer than the limit gives
\* a prefix of it of at most limit characters that ends at a space boundary,
\* followed by the ellipsis; a text within the limit is returned verbatim.
C11_SnippetNeverSplitsWord ==
    snip.pc = "returned" =>
        IF Len(snip.text) <= snip.max_len THEN snip.out = snip.text
        ELSE \E n \in 0..snip.max_len :
                /\ AtSpaceBoundary(snip.text, n)
                /\ snip.out = SubSeq(snip.text, 1, n) \o Ellipsis

\* ---- C12 ----
\* the supervisor returned a decision (its policy call did not raise)
RouterDecided == run.nodes # <<>> /\ run.raised # "policy"
\* the decision text, upper-cased, holds the marker "RAG"
MarkerIn(content) ==
    \E i \in 1..Len(content) : UpperWord(content[i].s) \in HoldsRAG

\* C12: the route the Router set is RAG_AGENT exactly when the upper-cased
\* decision text holds "RAG", and CHAT_AGENT for every other text.
C12_RouteIsMarkerTest ==
    RouterDecided =>
        /\ gs.route \in {"RAG_AGENT", "CHAT_AGENT"}
        /\ (gs.route = "RAG_AGENT") = MarkerIn(run.decision)

\* a lower-case decision is upper-cased before the test
C12_Witness ==
    /\ RouterDecided
    /\ run.decision = Words(<<"rag_agent">>)
    /\ gs.route = "RAG_AGENT"

\* ---- C13, C14, C20: what a handler did to the state it was entered with ----
AppendedOneAI ==
    /\ Len(gs.messages) = Len(run.entry.messages) + 1
    /\ SubSeq(gs.messages, 1, Len(run.entry.messages)) = run.entry.messages
    /\ gs.messages[Len(gs.messages)].type = "ai"

\* ---- C13 ----
ChatDone == pc = "END" /\ run.nodes = <<"supervisor", "CHAT_AGENT">>

\* C13: a finished chat handler appended exactly one assistant message, set
\* the token usage to that of its generation call, made one generation call
\* and no retrieval call, and left in-focus identifiers and route as entered.
C13_ChatHandlerFrame ==
    ChatDone =>
        /\ AppendedOneAI
        /\ gs.token_usage = run.usage
        /\ run.generations = 1 /\ run.searches = 0
        /\ gs.selected_resume_ids = run.entry.selected_resume_ids
        /\ gs.route = run.entry.route

C13_Witness ==
    /\ ChatDone
    /\ run.entry.selected_resume_ids = SomeIds(<<ID_A, ID_B>>)
    /\ run.entry.token_usage = "None"
    /\ gs.token_usage = "usage"

View(session) == IF session = cur THEN SessionState ELSE parked

\* every user message a session holds was typed by its own user
OwnInputsOnly ==
    \A session \in Sessions :
        /\ \A i \in 1..Len(View(session).lc_messages) :
               View(session).lc_messages[i].type = "human"
                   => View(session).lc_messages[i].content
                          \in InputsOf(session)
        /\ \A i \in 1..Len(View(session).chat_history) :
               View(session).chat_history[i].role = "user"
                   => View(session).chat_history[i].content
                          \in InputsOf(session)
        /\ \A i \in 1..Len(View(session).graph_state.messages) :
               View(session).graph_state.messages[i].type = "human"
                   => View(session).graph_state.messages[i].content
                          \in InputsOf(session)

\* a step changes the Conversation State of the running session only, and
\* handing over to the other session changes neither
IsolatedStep ==
    /\ store' = store
    /\ \A session \in Sessions :
           (session # cur \/ cur' # cur) => View(session)' = View(session)

\* C15: with the turns of two sessions interleaved in any order, no step of
\* one session's turn reads or writes the other session's message history,
\* graph state or in-focus identifiers, so each session evolves as it would
\* alone.
C15_SessionsIsolated ==
    /\ []OwnInputsOnly
    /\ [][IsolatedStep]_vars

\* both sessions have had a turn, and only one of them has identifiers in
\* focus
C15_Witness ==
    /\ cur = 2 /\ pc = "idle"
    /\ Len(chat_history) = 2
    /\ Len(parked.chat_history) = 2
    /\ parked.graph_state.selected_resume_ids = SomeIds(<<ID_A, ID_B>>)
    /\ graph_state.selected_resume_ids = NoIds

\* ---- C16 ----
HandlerFor(route) == IF route = "RAG_AGENT" THEN "RAG_AGENT" ELSE "CHAT_AGENT"

\* C16: the nodes of a turn are the supervisor, once and first, then the one
\* handler the route selects (the resume handler exactly for RAG_AGENT), and
\* nothing after it; a route outside the two labels selects the chat handler.
C16_RouterThenOneHandler ==
    /\ pc = "supervisor" => run.nodes = <<>>
    /\ pc \in {"RAG_AGENT", "CHAT_AGENT"}
           => run.nodes = <<"supervisor">> /\ pc = HandlerFor(gs.route)
    /\ (pc = "END" \/ TurnDone)
           => run.nodes = <<"supervisor", HandlerFor(gs.route)>>
    /\ pc = "raised"
           => run.nodes \in {<<"supervisor">>,
                             <<"supervisor", HandlerFor(gs.route)>>}
    /\ route_from_state([gs EXCEPT !.route = "SOMETHING_ELSE"]) = "CHAT_AGENT"

C16_Witness ==
    /\ pc = "END"
    /\ gs.route = "RAG_AGENT"
    /\ run.nodes = <<"supervisor", "RAG_AGENT">>

\* ---- C17 ----
Backoff == <<2, 4, 8, 16>>

RetryLoopSafe ==
    /\ ingest.attempt <= MAX_RETRIES
    /\ ingest.pc = "upsert"
           => ingest.waits = SubSeq(Backoff, 1, ingest.attempt - 1)
    /\ ingest.upserted = [i \in 1..ingest.batch_idx |-> i - 1]
    /\ ingest.pc \in {"batch", "upsert", "raised"}
           => ingest.batch_idx < ingest.num_batches
    /\ (ingest.pc = "raised" /\ ingest.attempt > 0)
           => ingest.attempt = MAX_RETRIES /\ ingest.waits = Backoff
    /\ ingest.pc = "done" => ingest.batch_idx = ingest.num_batches

\* a step of the job: it has not ended, and it leaves a batch only by a
\* successful upsert of that batch
RetryLoopStep ==
    /\ ingest.pc \in {"batch", "upsert"}
    /\ ingest'.batch_idx # ingest.batch_idx
           => /\ ingest.pc = "upsert"
              /\ ingest'.batch_idx = ingest.batch_idx + 1
              /\ ingest'.upserted = Append(ingest.upserted, ingest.batch_idx)

\* C17: a batch upsert is attempted at most 5 times with waits 2, 4, 8, 16
\* between attempts; the job leaves a batch only after its upsert succeeded;
\* after 5 failures it aborts and processes nothing more, so the batches
\* stored are always 0..batch_idx-1 with none skipped; and the job always
\* ends (done or aborted).
C17_RetryLoopBoundedAndLoud ==
    /\ []RetryLoopSafe
    /\ [][RetryLoopStep]_ingest
    /\ <>(ingest.pc \in {"done", "raised"})

\* the second batch fails five times after the first was stored
C17_Witness ==
    /\ ingest.pc = "raised"
    /\ ingest.attempt = MAX_RETRIES
    /\ ingest.waits = <<2, 4, 8, 16>>
    /\ ingest.batch_idx = 1
    /\ ingest.upserted = <<0>>
    /\ ingest.num_batches > 2

\* ---- C18 ----
\* C18: the question in the generation prompt of the resume handler is the
\* content of the latest user message.
C18_PromptCarriesOriginalQuestion ==
    (run.generations = 1 /\ Len(run.nodes) = 2 /\ run.nodes[2] = "RAG_AGENT")
        => run.prompt_question = run.question

\* ---- C19 ----
\* C19: the retrieval tool queries the store once per requested identifier
\* (standalone numbers of five or more digits, each once, in first-seen
\* order), filtered on it, and returns the identifier-mode context; without
\* such a number it makes one unfiltered query and returns a semantic-mode
\* context.
C19_IdentifierModeIffLongNumber ==
    Retrieved =>
        LET req == RequestedIds(run.query)
        IN /\ run.calls = (IF req # <<>> THEN req ELSE <<-1>>)
           /\ (run.context[1] = W("Comparison")) = (req # <<>>)

\* a repeated identifier, a number without data and a short number
C19_Witness ==
    /\ Retrieved
    /\ run.query = Q_repeat
    /\ run.calls = <<ID_B, 99999>>

\* ---- C20 ----
\* the retrieval was one unfiltered query against an empty collection
ZeroHits ==
    /\ Searched /\ run.raised # "retrieval"
    /\ run.calls = <<-1>> /\ store = {}

\* C20: after a semantic-mode retrieval without hits the context is the "No
\* relevant resume data found." text, the generation call was made, and a
\* finished handler appended exactly one assistant message and left the
\* in-focus identifiers as entered.
C20_NoHitsStillAnswers ==
    ZeroHits =>
        /\ Len(run.context) = 6
        /\ SubSeq(run.context, 2, 6)
               = Words(<<"No", "relevant", "resume", "data", "found.">>)
        /\ run.generations = 1
        /\ pc = "END" =>
               /\ AppendedOneAI
               /\ gs.selected_resume_ids = run.entry.selected_resume_ids

C20_Witness ==
    /\ ZeroHits /\ pc = "END"
    /\ run.entry.selected_resume_ids = SomeIds(<<ID_A>>)
    /\ gs.selected_resume_ids = SomeIds(<<ID_A>>)

\* ---- C21 ----
\* the normalized decision is one of the two tokens the policy prompt asks for
ExpectedDecision(content) ==
    normalize_decision(content)
        \in {Words(<<"RAG_AGENT">>), Words(<<"CHAT_AGENT">>)}

\* C21: a decision text that, normalized, is neither RAG_AGENT nor CHAT_AGENT
\* gives the route CHAT_AGENT.
C21_UnexpectedDecisionGivesChat ==
    (RouterDecided /\ ~ExpectedDecision(run.decision))
        => gs.route = "CHAT_AGENT"

\* ---- C22 ----
\* follow-up resolution replaced the question by a query naming identifier rid
RewrittenTo(rid) ==
    /\ run.query # run.question
    /\ run.query = follow_up_query(rid)

\* C22: when follow-up resolution rewrote the query to name the in-focus
\* identifier i, the retrieval ran in identifier mode and queried the store
\* for i alone.
C22_RewrittenQueryRunsIdentifierMode ==
    Retrieved =>
        \A i \in 1..Len(EntryFocus) :
            RewrittenTo(EntryFocus[i])
                => /\ run.calls = <<EntryFocus[i]>>
                   /\ run.context[1] = W("Comparison")

\* ---- C24 ----
\* C24: after a completed turn the last entry of the chat history is the
\* reply of the handler that ran, and its source label names the resume path
\* exactly when that handler was the resume handler and the chat path
\* exactly when it was the chat handler.
C24_SourceLabelNamesHandler ==
    TurnDone =>
        LET shown == chat_history[Len(chat_history)]
            handler == run.nodes[2]
        IN /\ shown.role = "assistant"
           /\ shown.content = gs.messages[Len(gs.messages)].content
           /\ gs.messages[Len(gs.messages)].type = "ai"
           /\ (shown.source = "RAG Agent (Resume Database)")
                  = (handler = "RAG_AGENT")
           /\ (shown.source = "Chat Agent (General Knowledge)")
                  = (handler = "CHAT_AGENT")

C24_Witness ==
    /\ TurnDone
    /\ run.nodes = <<"supervisor", "RAG_AGENT">>
    /\ run.decision = Words(<<"Storage">>)
    /\ chat_history[Len(chat_history)].source = "RAG Agent (Resume Database)"

\* ---- C23 ----
\* a turn has been submitted and its reply is not stored yet: lc_messages is
\* the stored history with the new user message added
TurnOpen == pc # "idle"

\* C23: the messages handed to the graph are the last min(10, n) messages of
\* the stored history of n messages, so never more than 10, and the last of
\* them is the new user message; the supervisor starts from exactly these,
\* whatever the previous final state held.
C23_WindowOfLastTen ==
    TurnOpen =>
        LET n == Len(lc_messages)
            handed == pre.input.messages
            k == Len(handed)
        IN /\ k = (IF n < 10 THEN n ELSE 10)
           /\ \A j \in 1..k : handed[j] = lc_messages[n - k + j]
           /\ handed[k].type = "human"
           /\ handed[k].content = chat_history[Len(chat_history)].content
           /\ chat_history[Len(chat_history)].role = "user"
           /\ pc = "supervisor" => gs.messages = handed

\* the eleventh message of a session: the window drops the oldest one, and
\* the previous final state still held it
C23_Witness ==
    /\ pc = "supervisor"
    /\ Len(lc_messages) = 11
    /\ Len(pre.input.messages) = 10
    /\ pre.input.messages[1] = lc_messages[2]
    /\ Len(pre.graph_state.messages) = 10
    /\ pre.graph_state.messages[1] = lc_messages[1]

====
